---- MODULE Spec2Model ----
(***************************************************************************)
(* Model of src/src/server.py: the in-memory event store                    *)
(* (InMemoryEventStore.store_event / replay_events_after) and the session   *)
(* handling of handle_streamable_http with its creation lock and the        *)
(* lifespan-owned task group.                                               *)
(*                                                                          *)
(* Spec        : the event store; store_event is one step (it never         *)
(*               awaits), replay_events_after is one step up to its first   *)
(*               awaited send_callback and one step per callback return.    *)
(* RepeatSpec  : the event store, each replay call keeping what the call    *)
(*               before it delivered.                                        *)
(* SessionSpec : the ASGI handler, one step per stretch of code between     *)
(*               two awaits, with the lifespan's startup and shutdown.      *)
(* AuthSpec    : src/src/auth/auth.py, lambda_handler applied to an event.  *)
(* DeploySpec  : src/deploy.py, deploy_lambda_container, one step per call  *)
(*               of the Lambda API.                                          *)
(* AttachSpec  : src/deploy.py, attach_lambda_authorizer, one step per call *)
(*               of the API Gateway API.                                     *)
(***************************************************************************)
EXTENDS Integers, Sequences, FiniteSets

\* ------------------------------------------------------------ bounds
MaxCap == 4
MaxEvents == 4
MaxReqs == 3
MaxStored == 1
MaxLen == 3
MaxRoutes == 3

None == "None"
\* None where the other values are numbers: no session header, no lock owner.
NoSession == 0
NoOwner == 0
StreamIds == {"S", "T"}
Messages == {"m1", "m2"}
Caps == 0..MaxCap
EventIds == 1..MaxEvents
Reqs == 1..MaxReqs
\* Session ids: one fresh value for every request that can create a session.
SessionIds == 1..MaxReqs

Range(q) == {q[i] : i \in 1..Len(q)}

VARIABLES
    max_events_per_stream,  \* self.max_events_per_stream
    streams,                \* self.streams: stream id -> deque of entries
    event_index,            \* self.event_index: event id -> entry
    dstate,                 \* per deque: its mutation counter (deque.state)
    uuids,                  \* history: the values uuid4() produced, in order
    log,                    \* history: every entry appended, in call order
    store_ret,              \* outcome of the latest store_event call
    rp,                     \* the replay_events_after call in progress
    task_group,             \* the global task_group: None or the lifespan's tg
    lifespan_pc,            \* lifespan: "init", "running" (at yield), "stopped"
    server_instances,       \* session id -> transport (named by its creator)
    session_creation_lock,  \* anyio.Lock: owner and FIFO queue of waiters
    tasks,                  \* session id -> state of its run_server task
    req,                    \* per request: where handle_streamable_http is
    event,                  \* auth.py: the event lambda_handler is called with
    raw_auth_header,        \* auth.py: the value selected at line 23-41
    auth_ret,               \* auth.py: what lambda_handler returned
    deploy_pc,              \* deploy_lambda_container: the call it is at
    function_exists,        \* line 381/384
    code_attempts,          \* update_function_code calls made so far
    code_result,            \* outcome of the latest update_function_code
    wait_attempts,          \* get_function polls made at line 26
    last_update_status,     \* outcome of the latest poll
    wait_ret,               \* what wait_for_function_update_completion returned
    config_attempts,        \* update_function_configuration calls made
    attempts,               \* line 472: polls of the function's State
    deploy_ret,             \* what deploy_lambda_container returned
    attach_pc,              \* attach_lambda_authorizer: the call it is at
    routes,                 \* the Items of get_routes: route keys, in order
    route_i,                \* position of the loop at line 325
    updates,                \* update_route calls made: route position, outcome
    attach_ret              \* what attach_lambda_authorizer returned

storeVars == <<max_events_per_stream, streams, event_index, dstate, uuids, log,
               store_ret, rp>>
sessVars == <<task_group, lifespan_pc, server_instances, session_creation_lock,
              tasks, req>>
authVars == <<event, raw_auth_header, auth_ret>>
deployVars == <<deploy_pc, function_exists, code_attempts, code_result,
                wait_attempts, last_update_status, wait_ret, config_attempts,
                attempts, deploy_ret>>
attachVars == <<attach_pc, routes, route_i, updates, attach_ret>>
toolVars == <<authVars, deployVars, attachVars>>
vars == <<storeVars, sessVars, toolVars>>

\* ------------------------------------------------------- event store
EventEntry(event_id, stream_id, message) ==
    [event_id |-> event_id, stream_id |-> stream_id, message |-> message]

Min(S) == CHOOSE x \in S : \A y \in S : x <= y

\* uuid4() yields a value it has not yielded before (122 random bits).  The
\* code only compares ids for equality, so the fresh value is taken
\* canonically: the least value not yet used.
\* (variant: a generator that repeats a value)
uuid4_reuse(used) == {Min(EventIds)}
uuid4(used) == IF EventIds \ used = {} THEN {} ELSE {Min(EventIds \ used)}

\* line 83-84: get or create the deque of the stream.
GetOrCreate(strs, stream_id) ==
    IF stream_id \in DOMAIN strs THEN strs
    ELSE [s \in DOMAIN strs \cup {stream_id} |->
            IF s = stream_id THEN <<>> ELSE strs[s]]

\* deque.append on a deque(maxlen=cap): a full deque drops its head.
\* (variants: a deque without maxlen; a deque that drops its newest entry)
DequeAppend_unbounded(q, entry, cap) == Append(q, entry)
DequeAppend_droptail(q, entry, cap) ==
    IF Len(q) >= cap THEN SubSeq(q, 1, cap - 1) \o <<entry>> ELSE Append(q, entry)
DequeAppend(q, entry, cap) ==
    IF cap = 0 THEN q
    ELSE IF Len(q) >= cap THEN Append(Tail(q), entry)
    ELSE Append(q, entry)

Drop(f, k) == [x \in DOMAIN f \ {k} |-> f[x]]
Put(f, k, v) == [x \in DOMAIN f \cup {k} |-> IF x = k THEN v ELSE f[x]]

\* line 88-90: a full deque's oldest event leaves the index.
\* (variants: the index entry is left behind; the oldest entry of the whole
\* index leaves it, whatever its stream)
PopOldest_forgotten(index, q, cap) == index
PopOldest_global(index, q, cap) ==
    IF Len(q) = cap THEN Drop(index, Min(DOMAIN index)) ELSE index
PopOldest(index, q, cap) ==
    IF Len(q) = cap THEN Drop(index, q[1].event_id) ELSE index

\* line 88-89 on an empty deque with max_events_per_stream = 0: deque[0] raises.
StoreRaises(q, cap) == Len(q) = cap /\ Len(q) = 0

store_event(stream_id, message) ==
    /\ Len(uuids) < MaxEvents
    /\ \E event_id \in uuid4(Range(uuids)) :
        LET entry == EventEntry(event_id, stream_id, message)
            strs  == GetOrCreate(streams, stream_id)
            q     == strs[stream_id]
            cap   == max_events_per_stream
        IN  /\ uuids' = Append(uuids, event_id)
            /\ IF StoreRaises(q, cap)
               THEN /\ streams' = strs
                    /\ store_ret' = [outcome |-> "IndexError", event_id |-> None,
                                     stream_id |-> stream_id]
                    /\ UNCHANGED <<event_index, dstate, log>>
               ELSE /\ streams' = [strs EXCEPT
                                     ![stream_id] = DequeAppend(q, entry, cap)]
                    /\ event_index' = Put(PopOldest(event_index, q, cap),
                                          event_id, entry)
                    /\ dstate' = [dstate EXCEPT ![stream_id] = @ + 1]
                    /\ log' = Append(log, entry)
                    /\ store_ret' = [outcome |-> "ok", event_id |-> event_id,
                                     stream_id |-> stream_id]
    /\ UNCHANGED <<max_events_per_stream, rp>>
    /\ UNCHANGED <<sessVars, toolVars>>

StoreEvent == \E stream_id \in StreamIds, message \in Messages :
                 store_event(stream_id, message)

\* ----------------------------------------------- replay_events_after
EventMessage(message, event_id) == [message |-> message, event_id |-> event_id]

\* History kept with a call.  at: for a call that found no entry, the number
\* of appends made when it began (a call that found one has the deque's
\* state counter in itstate).  prev: what the previous call delivered and
\* returned, kept when this call repeats it (same id, that call returned,
\* nothing appended since to what it read).
NoPrev == [set |-> FALSE, sent |-> <<>>, ret |-> None]

Idle == [pc |-> "idle", last |-> None, assumed |-> None, stream |-> None,
         pos |-> 0, itstate |-> 0, sent |-> <<>>, ret |-> None,
         at |-> 0, prev |-> NoPrev]

\* line 104-106: the id is not in the index: warn and return None.
\* (variant: the lookup raises instead)
NotFound_raises(last, assumed) ==
    [Idle EXCEPT !.pc = "KeyError", !.last = last, !.assumed = assumed]
NotFound(last, assumed) ==
    [Idle EXCEPT !.pc = "done", !.last = last, !.assumed = assumed]

\* line 109-110: the stream replayed is the one the indexed entry names; the
\* call has no stream argument, so the stream the caller serves plays no part.
\* (variant: the caller's stream is the one walked)
OwningStream_assumed(index, last, assumed) == assumed
OwningStream(index, last, assumed) == index[last].stream_id

\* line 111: self.streams.get(stream_id, deque())
GetStream(strs, stream_id) ==
    IF stream_id \in DOMAIN strs THEN strs[stream_id] ELSE <<>>

\* line 114-119: the loop skips entries up to and including the one whose id
\* is last_event_id; the position of the first entry it sends (Len(q) + 1
\* when there is none).
\* (variant: the matched entry is sent again)
FirstToSend_inclusive(q, last) ==
    IF \E i \in 1..Len(q) : q[i].event_id = last
    THEN Min({i \in 1..Len(q) : q[i].event_id = last})
    ELSE Len(q) + 1
FirstToSend(q, last) ==
    IF \E i \in 1..Len(q) : q[i].event_id = last
    THEN Min({i \in 1..Len(q) : q[i].event_id = last}) + 1
    ELSE Len(q) + 1

\* One pass of "for event in stream_events" from position pos on: either the
\* deque is exhausted and the call returns stream_id (line 121), or the
\* callback is awaited for the entry at pos (line 117).
Advance(r, q, pos) ==
    IF pos > Len(q)
    THEN [r EXCEPT !.pc = "done", !.pos = pos, !.ret = r.stream]
    ELSE [r EXCEPT !.pc = "sending", !.pos = pos,
                   !.sent = Append(r.sent,
                                   EventMessage(q[pos].message, q[pos].event_id))]

\* line 115-117: the loop reads the deque in place; the streams after it
\* has walked the deque of stream_id.
\* (variant: a loop that pops the entries it walks)
ReadBack_consuming(strs, stream_id) ==
    IF stream_id \in DOMAIN strs THEN [strs EXCEPT ![stream_id] = <<>>] ELSE strs
ReadBack(strs, stream_id) == strs

\* The history fields of a call that begins now.
NothingAppendedSince(r) ==
    IF r.stream = None THEN r.at = Len(log) ELSE dstate[r.stream] = r.itstate

WithHistory(r) ==
    [r EXCEPT !.at = IF r.stream = None THEN Len(log) ELSE 0,
              !.prev = IF /\ rp.pc = "done" /\ rp.last = r.last
                          /\ NothingAppendedSince(rp)
                       THEN [set |-> TRUE, sent |-> rp.sent, ret |-> rp.ret]
                       ELSE NoPrev]

\* The call up to its first await.  assumed is the stream the caller serves;
\* the code never reads it.  history: whether the history fields are kept.
ReplayStart(last, assumed, history) ==
    /\ rp.pc # "sending"
    /\ IF last \notin DOMAIN event_index
       THEN /\ rp' = LET r == NotFound(last, assumed)
                       IN  IF history THEN WithHistory(r) ELSE r
            /\ UNCHANGED streams
       ELSE LET stream_id == OwningStream(event_index, last, assumed)
                q == GetStream(streams, stream_id)
                r == [Idle EXCEPT !.last = last, !.assumed = assumed,
                                  !.stream = stream_id,
                                  !.itstate = dstate[stream_id]]
                a == Advance(r, q, FirstToSend(q, last))
            IN  /\ rp' = IF history THEN WithHistory(a) ELSE a
                /\ streams' = ReadBack(streams, stream_id)
    /\ UNCHANGED <<max_events_per_stream, event_index, dstate, uuids, log,
                   store_ret>>
    /\ UNCHANGED <<sessVars, toolVars>>

\* The deque iterator's __next__ raises when the deque changed since iter().
Mutated(r) == dstate[r.stream] # r.itstate

\* send_callback returns and the loop asks the iterator for the next entry.
ReplayResume ==
    /\ rp.pc = "sending"
    /\ IF Mutated(rp)
       THEN /\ rp' = [rp EXCEPT !.pc = "RuntimeError"]
            /\ UNCHANGED streams
       ELSE /\ rp' = Advance(rp, GetStream(streams, rp.stream), rp.pos + 1)
            /\ streams' = ReadBack(streams, rp.stream)
    /\ UNCHANGED <<max_events_per_stream, event_index, dstate, uuids, log,
                   store_ret>>
    /\ UNCHANGED <<sessVars, toolVars>>

ReplayEventsAfter == \E last \in EventIds, assumed \in StreamIds :
                        ReplayStart(last, assumed, FALSE)

\* The same calls, whatever stream the caller serves, each keeping what the
\* call before it delivered.
ReplayEventsAfterAgain == \E last \in EventIds : ReplayStart(last, None, TRUE)

\* line 61: max_events_per_stream: int = 100
DefaultMaxEvents == 100

InitStore ==
    /\ streams = <<>>
    /\ event_index = <<>>
    /\ dstate = [s \in StreamIds |-> 0]
    /\ uuids = <<>>
    /\ log = <<>>
    /\ store_ret = [outcome |-> None, event_id |-> None, stream_id |-> None]
    /\ rp = Idle

\* ------------------------------------------- handle_streamable_http
NewReq == [pc |-> "new", header |-> NoSession, sid |-> NoSession, outcome |-> None]

\* line 277: uuid4().hex, a value not produced before, taken canonically.
\* (variant: a generator that repeats a value)
uuid4_hex_reuse(used) == Min(SessionIds)
uuid4_hex(used) == Min(SessionIds \ used)

\* anyio.Lock.acquire: taken at once when free, else the caller queues.
LockAcquire(lock, r) ==
    IF lock.owner = NoOwner /\ lock.waiters = <<>>
    THEN [lock EXCEPT !.owner = r]
    ELSE [lock EXCEPT !.waiters = Append(@, r)]

\* anyio.Lock.release: ownership passes to the first waiter, if any.
\* (variant: the lock stays with its owner)
LockRelease_kept(lock) == lock
LockRelease(lock) ==
    IF lock.waiters = <<>>
    THEN [lock EXCEPT !.owner = NoOwner]
    ELSE [owner |-> Head(lock.waiters), waiters |-> Tail(lock.waiters)]

\* The requests after request r left the "async with session_creation_lock"
\* block with the given outcome: r is done and the new owner enters the block.
AfterExit(r, outcome, lock) ==
    [x \in Reqs |->
        IF x = r THEN [req[x] EXCEPT !.pc = "done", !.outcome = outcome]
        ELSE IF x = lock.owner /\ req[x].pc = "waiting"
             THEN [req[x] EXCEPT !.pc = "locked"]
        ELSE req[x]]

\* line 265-272 and 304: the branch taken for a session header.
\* (variants: a known id goes through creation; a known id is rejected; an
\* unknown id creates)
Route_always_create(header, instances) ==
    IF header # NoSession /\ header \in DOMAIN instances THEN "create"
    ELSE IF header = NoSession THEN "create"
    ELSE "reject"
Route_known_rejected(header, instances) ==
    IF header = NoSession THEN "create" ELSE "reject"
Route_unknown_creates(header, instances) ==
    IF header # NoSession /\ header \in DOMAIN instances THEN "existing"
    ELSE "create"
Route(header, instances) ==
    IF header # NoSession /\ header \in DOMAIN instances THEN "existing"
    ELSE IF header = NoSession THEN "create"
    ELSE "reject"

\* line 263-272 and 304-309: read the session header and choose the branch.
Dispatch(r, header) ==
    /\ req[r].pc = "new"
    /\ req' = [req EXCEPT ![r] =
                 CASE Route(header, server_instances) = "existing" ->
                        [@ EXCEPT !.pc = "handle_existing", !.header = header,
                                  !.sid = header]
                   [] Route(header, server_instances) = "create" ->
                        [@ EXCEPT !.pc = "acquire", !.header = header]
                   [] OTHER ->
                        [@ EXCEPT !.pc = "done", !.header = header,
                                  !.outcome = "400"]]
    /\ UNCHANGED <<task_group, lifespan_pc, server_instances,
                   session_creation_lock, tasks>>
    /\ UNCHANGED <<storeVars, toolVars>>

\* line 276: async with session_creation_lock (entry).
Acquire(r) ==
    /\ req[r].pc = "acquire"
    /\ session_creation_lock' = LockAcquire(session_creation_lock, r)
    /\ req' = [req EXCEPT ![r].pc =
                 IF session_creation_lock'.owner = r THEN "locked" ELSE "waiting"]
    /\ UNCHANGED <<task_group, lifespan_pc, server_instances, tasks>>
    /\ UNCHANGED <<storeVars, toolVars>>

\* line 297: if not task_group
\* (variant: the check is missing)
TaskGroupAvailable_unchecked(tg) == TRUE
TaskGroupAvailable(tg) == tg # None

\* line 277-300: under the lock, create the transport, register it, then
\* check the task group and start run_server in it.
Create(r) ==
    /\ req[r].pc = "locked"
    /\ LET new_session_id == uuid4_hex(DOMAIN server_instances)
       IN  /\ server_instances' = Put(server_instances, new_session_id, r)
           /\ IF ~TaskGroupAvailable(task_group)
              THEN \* line 297-298: raise RuntimeError; the block exits
                   /\ session_creation_lock' = LockRelease(session_creation_lock)
                   /\ req' = [AfterExit(r, "RuntimeError", session_creation_lock')
                                EXCEPT ![r].sid = new_session_id]
                   /\ UNCHANGED tasks
              ELSE \* line 300: await task_group.start(run_server)
                   /\ tasks' = Put(tasks, new_session_id, "starting")
                   /\ req' = [req EXCEPT ![r].pc = "starting",
                                         ![r].sid = new_session_id]
                   /\ UNCHANGED session_creation_lock
    /\ UNCHANGED <<task_group, lifespan_pc>>
    /\ UNCHANGED <<storeVars, toolVars>>

\* line 286-290 and 300-303: run_server connects and reports started; start()
\* returns and the handler calls the transport's handle_request, still inside
\* the "async with" block.
TaskStarted(r) ==
    /\ req[r].pc = "starting"
    /\ tasks[req[r].sid] = "starting"
    /\ tasks' = [tasks EXCEPT ![req[r].sid] = "running"]
    /\ req' = [req EXCEPT ![r].pc = "handle_new"]
    /\ UNCHANGED <<task_group, lifespan_pc, server_instances,
                   session_creation_lock>>
    /\ UNCHANGED <<storeVars, toolVars>>

\* line 300: the scope was cancelled before run_server reported started;
\* start() raises and the block exits.
StartFailed(r) ==
    /\ req[r].pc = "starting"
    /\ tasks[req[r].sid] = "cancelled"
    /\ session_creation_lock' = LockRelease(session_creation_lock)
    /\ req' = AfterExit(r, "StartError", session_creation_lock')
    /\ UNCHANGED <<task_group, lifespan_pc, server_instances, tasks>>
    /\ UNCHANGED <<storeVars, toolVars>>

\* line 303: handle_request of a new session ends (response sent, client
\* gone or an error); the "async with" block exits and releases the lock.
HandleNewDone(r, how) ==
    /\ req[r].pc = "handle_new"
    /\ session_creation_lock' = LockRelease(session_creation_lock)
    /\ req' = AfterExit(r, how, session_creation_lock')
    /\ UNCHANGED <<task_group, lifespan_pc, server_instances, tasks>>
    /\ UNCHANGED <<storeVars, toolVars>>

\* line 271: handle_request of an existing session ends.
HandleExistingDone(r, how) ==
    /\ req[r].pc = "handle_existing"
    /\ req' = [req EXCEPT ![r].pc = "done", ![r].outcome = how]
    /\ UNCHANGED <<task_group, lifespan_pc, server_instances,
                   session_creation_lock, tasks>>
    /\ UNCHANGED <<storeVars, toolVars>>

\* line 291-295: app.run returns (engine finished, protocol close) and the
\* session's task ends.  Nothing else is touched.
TaskEnds(sid) ==
    /\ sid \in DOMAIN tasks
    /\ tasks[sid] = "running"
    /\ tasks' = [tasks EXCEPT ![sid] = "finished"]
    /\ UNCHANGED <<task_group, lifespan_pc, server_instances,
                   session_creation_lock, req>>
    /\ UNCHANGED <<storeVars, toolVars>>

\* line 141-145: lifespan startup.
Startup ==
    /\ lifespan_pc = "init"
    /\ task_group' = "tg"
    /\ lifespan_pc' = "running"
    /\ UNCHANGED <<server_instances, session_creation_lock, tasks, req>>
    /\ UNCHANGED <<storeVars, toolVars>>

\* line 149: tg.cancel_scope.cancel() cancels every task of the group that
\* has not ended yet.
\* (variant: the scope is left alone)
CancelScope_skipped(ts) == ts
CancelScope(ts) ==
    [s \in DOMAIN ts |->
        IF ts[s] \in {"starting", "running"} THEN "cancelled" ELSE ts[s]]

\* line 146-151: lifespan shutdown: cancel the scope, reset the global.
Shutdown ==
    /\ lifespan_pc = "running"
    /\ tasks' = CancelScope(tasks)
    /\ task_group' = None
    /\ lifespan_pc' = "stopped"
    /\ UNCHANGED <<server_instances, session_creation_lock, req>>
    /\ UNCHANGED <<storeVars, toolVars>>

\* How handle_request ends: a response was sent, the client went away, or it
\* raised.
Outcomes == {"response", "disconnect", "error"}

InitSession ==
    /\ task_group = None
    /\ lifespan_pc = "init"
    /\ server_instances = <<>>
    /\ session_creation_lock = [owner |-> NoOwner, waiters |-> <<>>]
    /\ tasks = <<>>
    /\ req = [r \in Reqs |-> NewReq]

NextSession ==
    \/ \E r \in Reqs, header \in {NoSession} \cup SessionIds : Dispatch(r, header)
    \/ \E r \in Reqs : Acquire(r)
    \/ \E r \in Reqs : Create(r)
    \/ \E r \in Reqs : TaskStarted(r)
    \/ \E r \in Reqs : StartFailed(r)
    \/ \E r \in Reqs, how \in Outcomes : HandleNewDone(r, how)
    \/ \E r \in Reqs, how \in Outcomes : HandleExistingDone(r, how)
    \/ \E sid \in SessionIds : TaskEnds(sid)
    \/ Startup
    \/ Shutdown

\* ------------------------------------------------ auth.py: lambda_handler
\* A string is the sequence of its pieces: " " is one whitespace character,
\* any other piece is a run of non-whitespace characters.  A value that may
\* be missing (dict.get giving None) is Absent or Some(value).
Absent == <<>>
Some(v) == <<v>>
Symbols == {" ", "Bearer", "bearer", "tok"}
RECURSIVE SeqsUpTo(_, _)
SeqsUpTo(S, n) ==
    IF n = 0 THEN {<<>>}
    ELSE LET shorter == SeqsUpTo(S, n - 1)
         IN  shorter \cup {Append(s, x) : s \in {q \in shorter : Len(q) = n - 1}, x \in S}
Values == SeqsUpTo(Symbols, MaxLen)
\* A credential of the expected form, to tell the sources apart.
Other == <<"bearer", " ", "tok">>
Arn == <<"arn">>

\* Python truthiness of a value that may be None or an empty string.
Truthy(o) == o # Absent /\ o[1] # <<>>

\* str.lower(), piece by piece.
\* (variant: the comparison is made on the value as given)
Lower_identity(s) == s
Lower(s) == [i \in 1..Len(s) |-> IF s[i] = "Bearer" THEN "bearer" ELSE s[i]]

\* str.lower() on a header name.
LowerName(n) ==
    IF n \in {"Authorization", "authorization", "AUTHORIZATION"}
    THEN "authorization" ELSE "host"

\* str.split(): the maximal runs of non-whitespace, in order.
FirstRun(s) == Min({i \in 1..Len(s) : i = Len(s) \/ s[i + 1] = " "})
RECURSIVE Split(_)
Split(s) ==
    IF s = <<>> THEN <<>>
    ELSE IF Head(s) = " " THEN Split(Tail(s))
    ELSE <<SubSeq(s, 1, FirstRun(s))>> \o Split(SubSeq(s, FirstRun(s) + 1, Len(s)))

\* line 9-13: methodArn, else routeArn.
GetArn(ev) == IF Truthy(ev.methodArn) THEN ev.methodArn ELSE ev.routeArn

\* line 31: the first key of the headers whose lower() is 'authorization'.
AuthHeaderKeys(h) == {i \in 1..Len(h) : LowerName(h[i].name) = "authorization"}

\* line 23-41: the if / elif / elif chain that picks raw_auth_header.
SelectRaw(ev) ==
    IF ev.identitySource # Absent /\ Len(ev.identitySource[1]) > 0
    THEN Some(ev.identitySource[1][1])
    ELSE IF ev.headers # Absent /\ ev.headers[1] # <<>>
    THEN LET h == ev.headers[1]
         IN  IF AuthHeaderKeys(h) = {} THEN Absent
             ELSE Some(h[Min(AuthHeaderKeys(h))].value)
    ELSE IF Truthy(ev.authorizationToken) THEN ev.authorizationToken
    ELSE Absent

\* line 44-55: 'Bearer <token>'.
ExtractToken(raw) ==
    IF Truthy(raw)
    THEN LET parts == Split(raw[1])
         IN  IF Len(parts) = 2 /\ Lower(parts[1]) = <<"bearer">>
             THEN Some(parts[2]) ELSE Absent
    ELSE Absent

\* line 4-91.  The result is the returned dict.
lambda_handler(ev) ==
    IF ~Truthy(GetArn(ev)) THEN [isAuthorized |-> FALSE]
    ELSE IF ~Truthy(ExtractToken(SelectRaw(ev))) THEN [isAuthorized |-> FALSE]
    ELSE [isAuthorized |-> TRUE]

LambdaHandler ==
    /\ auth_ret = Absent
    /\ auth_ret' = Some(lambda_handler(event))
    /\ raw_auth_header' = IF Truthy(GetArn(event)) THEN SelectRaw(event) ELSE Absent
    /\ UNCHANGED event
    /\ UNCHANGED <<storeVars, sessVars, deployVars, attachVars>>

Header(n, v) == [name |-> n, value |-> v]
\* The events of an API Gateway authorizer call that carry the value v:
\* every field is missing, empty, or a string.
EventsOf(v) ==
    [methodArn : {Absent, Some(<<>>), Some(Arn)},
     routeArn : {Absent, Some(Arn)},
     identitySource : {Absent, Some(<<>>), Some(<<v>>), Some(<<Other>>)},
     headers : {Absent, Some(<<>>),
                Some(<<Header("Host", Other)>>),
                Some(<<Header("Authorization", v)>>),
                Some(<<Header("authorization", Other)>>),
                Some(<<Header("Host", Other), Header("AUTHORIZATION", v)>>)},
     authorizationToken : {Absent, Some(v), Some(Other)}]

NoEvent == [methodArn |-> Absent, routeArn |-> Absent, identitySource |-> Absent,
            headers |-> Absent, authorizationToken |-> Absent]
InitAuth == event = NoEvent /\ raw_auth_header = Absent /\ auth_ret = Absent

\* ------------------------------------ deploy.py: deploy_lambda_container
max_attempts == 30
max_code_retries == 5
max_config_retries == 5
max_state_attempts == 10

\* What a call of the Lambda API can do: succeed, or raise
\* ResourceConflictException, or raise something else.
CallOutcomes == {"ok", "ResourceConflictException", "Error"}
\* What a poll at line 26 can give: a LastUpdateStatus (None when the key is
\* missing), or an exception.
PollOutcomes == {"None", "Successful", "Failed", "InProgress",
                 "ThrottlingException", "ResourceNotFoundException", "Error"}

\* line 30-54: what the loop does with a poll.
\* (variant: a failed update is polled again)
PollVerdict_failed_retried(status) ==
    IF status \in {"None", "Successful"} THEN "True"
    ELSE IF status = "ResourceNotFoundException" THEN "False"
    ELSE "retry"
PollVerdict(status) ==
    IF status \in {"None", "Successful"} THEN "True"
    ELSE IF status \in {"Failed", "ResourceNotFoundException"} THEN "False"
    ELSE "retry"

\* line 400-406: retry after this outcome of attempt number attempt (from 0)?
\* (variant: every failure is retried)
CodeRetried_any(outcome, attempt) ==
    outcome # "ok" /\ attempt < max_code_retries - 1
CodeRetried(outcome, attempt) ==
    outcome = "ResourceConflictException" /\ attempt < max_code_retries - 1

\* line 423-429: the same for update_function_configuration.
ConfigRetried(outcome, attempt) ==
    outcome = "ResourceConflictException" /\ attempt < max_config_retries - 1

\* line 496-498: an exception anywhere ends the function with False.
Fails ==
    /\ deploy_pc' = "done"
    /\ deploy_ret' = "False"

\* line 379-385: does the function exist?
GetFunction(outcome) ==
    /\ deploy_pc = "get_function"
    /\ IF outcome = "ok"
       THEN function_exists' = "True" /\ deploy_pc' = "update_code"
            /\ UNCHANGED deploy_ret
       ELSE IF outcome = "ResourceNotFoundException"
       THEN function_exists' = "False" /\ deploy_pc' = "create_function"
            /\ UNCHANGED deploy_ret
       ELSE Fails /\ UNCHANGED function_exists
    /\ UNCHANGED <<code_attempts, code_result, wait_attempts, last_update_status,
                   wait_ret, config_attempts, attempts>>
    /\ UNCHANGED <<storeVars, sessVars, authVars, attachVars>>

\* line 391-406: one pass of the retry loop around update_function_code.
UpdateFunctionCode(outcome) ==
    /\ deploy_pc = "update_code"
    /\ code_attempts' = code_attempts + 1
    /\ code_result' = outcome
    /\ IF outcome = "ok"
       THEN deploy_pc' = "wait" /\ UNCHANGED deploy_ret
       ELSE IF CodeRetried(outcome, code_attempts)
       THEN UNCHANGED <<deploy_pc, deploy_ret>>
       ELSE Fails
    /\ UNCHANGED <<function_exists, wait_attempts, last_update_status, wait_ret,
                   config_attempts, attempts>>
    /\ UNCHANGED <<storeVars, sessVars, authVars, attachVars>>

\* line 410 and 22-57: one pass of the loop of
\* wait_for_function_update_completion; after the last pass the function
\* returns False (line 56-57).  Line 410 drops the value returned, so the
\* caller goes on to the configuration whatever it is.
Poll(status) ==
    /\ deploy_pc = "wait"
    /\ wait_attempts' = wait_attempts + 1
    /\ last_update_status' = status
    /\ LET ret == IF PollVerdict(status) # "retry" THEN PollVerdict(status)
                  ELSE IF wait_attempts' = max_attempts THEN "False"
                  ELSE "None"
       IN  /\ wait_ret' = ret
           /\ deploy_pc' = IF ret = "None" THEN "wait" ELSE "update_config"
    /\ UNCHANGED <<function_exists, code_attempts, code_result, config_attempts,
                   attempts, deploy_ret>>
    /\ UNCHANGED <<storeVars, sessVars, authVars, attachVars>>

\* line 414-429: one pass of the retry loop around
\* update_function_configuration.
UpdateFunctionConfiguration(outcome) ==
    /\ deploy_pc = "update_config"
    /\ config_attempts' = config_attempts + 1
    /\ IF outcome = "ok"
       THEN deploy_pc' = "wait_active" /\ UNCHANGED deploy_ret
       ELSE IF ConfigRetried(outcome, config_attempts)
       THEN UNCHANGED <<deploy_pc, deploy_ret>>
       ELSE Fails
    /\ UNCHANGED <<function_exists, code_attempts, code_result, wait_attempts,
                   last_update_status, wait_ret, attempts>>
    /\ UNCHANGED <<storeVars, sessVars, authVars, attachVars>>

\* line 432-466: create_function.
CreateFunction(outcome) ==
    /\ deploy_pc = "create_function"
    /\ IF outcome = "ok"
       THEN deploy_pc' = "wait_active" /\ UNCHANGED deploy_ret
       ELSE Fails
    /\ UNCHANGED <<function_exists, code_attempts, code_result, wait_attempts,
                   last_update_status, wait_ret, config_attempts, attempts>>
    /\ UNCHANGED <<storeVars, sessVars, authVars, attachVars>>

\* line 474-494: one pass of the loop that waits for State = 'Active'; the
\* function returns when the state is Active without an API gateway asked
\* for, or when the attempts are used up.
PollState(state, api_gateway) ==
    /\ deploy_pc = "wait_active"
    /\ attempts' = attempts + 1
    /\ IF state = "Error" THEN Fails
       ELSE IF state = "Active"
       THEN IF api_gateway
            THEN deploy_pc' = "deploy_api_gateway" /\ UNCHANGED deploy_ret
            ELSE deploy_pc' = "done" /\ deploy_ret' = "True"
       ELSE IF attempts' = max_state_attempts THEN Fails
       ELSE UNCHANGED <<deploy_pc, deploy_ret>>
    /\ UNCHANGED <<function_exists, code_attempts, code_result, wait_attempts,
                   last_update_status, wait_ret, config_attempts>>
    /\ UNCHANGED <<storeVars, sessVars, authVars, attachVars>>

\* line 488: return deploy_api_gateway(...), which returns a bool or raises.
DeployApiGateway(result) ==
    /\ deploy_pc = "deploy_api_gateway"
    /\ deploy_pc' = "done"
    /\ deploy_ret' = result
    /\ UNCHANGED <<function_exists, code_attempts, code_result, wait_attempts,
                   last_update_status, wait_ret, config_attempts, attempts>>
    /\ UNCHANGED <<storeVars, sessVars, authVars, attachVars>>

InitDeploy ==
    /\ deploy_pc = "get_function"
    /\ function_exists = "None"
    /\ code_attempts = 0
    /\ code_result = "None"
    /\ wait_attempts = 0
    /\ last_update_status = "None"
    /\ wait_ret = "None"
    /\ config_attempts = 0
    /\ attempts = 0
    /\ deploy_ret = "None"

NextDeploy ==
    \/ \E outcome \in {"ok", "ResourceNotFoundException", "Error"} :
          GetFunction(outcome)
    \/ \E outcome \in CallOutcomes : UpdateFunctionCode(outcome)
    \/ \E status \in PollOutcomes : Poll(status)
    \/ \E outcome \in CallOutcomes : UpdateFunctionConfiguration(outcome)
    \/ \E outcome \in {"ok", "Error"} : CreateFunction(outcome)
    \/ \E state \in {"Active", "Pending", "Error"}, api_gateway \in BOOLEAN :
          PollState(state, api_gateway)
    \/ \E result \in {"True", "False"} : DeployApiGateway(result)

\* ----------------------------------- deploy.py: attach_lambda_authorizer
\* A route key is the sequence of its pieces: the method, then the path
\* segments.
PublicPaths == {<<"/.well-known", "/oauth-protected-resource">>,
                <<"/.well-known", "/oauth-authorization-server">>,
                <<"/.well-known", "/openid-configuration">>}
RouteKeys == {<<"GET", "/.well-known", "/oauth-protected-resource">>,
              <<"GET", "/.well-known", "/oauth-authorization-server">>,
              <<"GET", "/v1", "/.well-known", "/openid-configuration">>,
              <<"GET", "/.well-known", "/openid-configuration", "/x">>,
              <<"ANY", "/mcp">>,
              <<"$default">>}

\* str.endswith.
\* (variant: the path may occur anywhere in the key)
EndsWith_contains(k, p) ==
    \E i \in 1..Len(k) : i + Len(p) - 1 <= Len(k) /\ SubSeq(k, i, i + Len(p) - 1) = p
EndsWith(k, p) ==
    Len(k) >= Len(p) /\ SubSeq(k, Len(k) - Len(p) + 1, Len(k)) = p

\* line 327-331: any(route['RouteKey'].endswith(path) for path in [...]).
SkipRoute(k) == \E p \in PublicPaths : EndsWith(k, p)

\* line 240-321: find, create or update the authorizer and grant the
\* permission; an exception ends the function with None (line 347-349).
SetupAuthorizer(outcome) ==
    /\ attach_pc = "setup"
    /\ IF outcome = "ok"
       THEN attach_pc' = "get_routes" /\ UNCHANGED attach_ret
       ELSE attach_pc' = "done" /\ attach_ret' = "None"
    /\ UNCHANGED <<routes, route_i, updates>>
    /\ UNCHANGED <<storeVars, sessVars, authVars, deployVars>>

\* The loop has dealt with route_i' routes: it goes on, or the function
\* returns the authorizer id (line 345).
LoopOrReturn ==
    IF route_i' < Len(routes')
    THEN attach_pc' = "routes" /\ UNCHANGED attach_ret
    ELSE attach_pc' = "done" /\ attach_ret' = "authorizer_id"

\* line 324: get_routes gives the routes, or raises.
GetRoutes(outcome, items) ==
    /\ attach_pc = "get_routes"
    /\ IF outcome = "ok"
       THEN routes' = items /\ UNCHANGED route_i /\ LoopOrReturn
       ELSE attach_pc' = "done" /\ attach_ret' = "None" /\ UNCHANGED <<routes, route_i>>
    /\ UNCHANGED updates
    /\ UNCHANGED <<storeVars, sessVars, authVars, deployVars>>

\* line 325-343: one pass of the loop over the routes: a public route is
\* skipped, any other is updated, and a failing update is only printed.
RouteStep(outcome) ==
    /\ attach_pc = "routes"
    /\ route_i' = route_i + 1
    /\ updates' = IF SkipRoute(routes[route_i'])
                  THEN updates
                  ELSE Append(updates, [route |-> route_i', outcome |-> outcome])
    /\ UNCHANGED routes
    /\ LoopOrReturn
    /\ UNCHANGED <<storeVars, sessVars, authVars, deployVars>>

InitAttach ==
    /\ attach_pc = "setup"
    /\ routes = <<>>
    /\ route_i = 0
    /\ updates = <<>>
    /\ attach_ret = "None"

NextAttach ==
    \/ \E outcome \in {"ok", "Error"} : SetupAuthorizer(outcome)
    \/ \E outcome \in {"ok", "Error"}, items \in SeqsUpTo(RouteKeys, MaxRoutes) :
          GetRoutes(outcome, items)
    \/ \E outcome \in {"ok", "Error"} : RouteStep(outcome)

InitTools == InitAuth /\ InitDeploy /\ InitAttach

\* The event store on its own, for every capacity up to MaxCap.
Init == max_events_per_stream \in Caps /\ InitStore /\ InitSession
        /\ InitTools
Next == StoreEvent \/ ReplayEventsAfter \/ ReplayResume
Spec == Init /\ [][Next]_vars

\* The event store with the history of its replay calls.
NextRepeat == StoreEvent \/ ReplayEventsAfterAgain \/ ReplayResume
RepeatSpec == Init /\ [][NextRepeat]_vars

\* The handler and the lifespan, with the module's event_store (line 134:
\* the default capacity) left untouched.
SessionInit == max_events_per_stream = DefaultMaxEvents /\ InitStore
                /\ InitSession /\ InitTools
SessionSpec == SessionInit /\ [][NextSession]_vars

\* line 281 and 271/303: the transport was given the module's event_store
\* and, while it handles a request, stores the events it sends.
TransportStores(r) ==
    /\ req[r].pc \in {"handle_new", "handle_existing"}
    /\ Len(log) < MaxStored
    /\ StoreEvent

\* A request and the requests that follow it on the same session.
ResumeReqs == 1..(MaxReqs - 1)

\* The handler together with the event store its transports write to.
NextResume ==
    \/ \E r \in ResumeReqs, header \in {NoSession} \cup SessionIds :
          Dispatch(r, header)
    \/ \E r \in ResumeReqs : Acquire(r)
    \/ \E r \in ResumeReqs : Create(r)
    \/ \E r \in ResumeReqs : TaskStarted(r)
    \/ \E r \in ResumeReqs : StartFailed(r)
    \/ \E r \in ResumeReqs, how \in Outcomes : HandleNewDone(r, how)
    \/ \E r \in ResumeReqs, how \in Outcomes : HandleExistingDone(r, how)
    \/ \E r \in ResumeReqs : TransportStores(r)
    \/ \E sid \in SessionIds : TaskEnds(sid)
    \/ Startup
    \/ Shutdown
ResumeSpec == SessionInit /\ [][NextResume]_vars

\* lambda_handler on every event of EventsOf, for every value up to MaxLen.
AuthInit ==
    /\ max_events_per_stream = DefaultMaxEvents /\ InitStore /\ InitSession
    /\ InitDeploy /\ InitAttach
    /\ \E v \in Values : event \in EventsOf(v)
    /\ raw_auth_header = Absent /\ auth_ret = Absent
AuthSpec == AuthInit /\ [][LambdaHandler]_vars

\* deploy_lambda_container against a Lambda API that may answer anything.
DeploySpec == SessionInit /\ [][NextDeploy]_vars

\* attach_lambda_authorizer on every list of up to MaxRoutes routes.
AttachSpec == SessionInit /\ [][NextAttach]_vars

\* ------------------------------------------------------------ claims
IdsOf(q) == {q[i].event_id : i \in 1..Len(q)}
PosOf(q, id) == Min({i \in 1..Len(q) : q[i].event_id = id})
\* The entries appended to stream s, in call order.
Appended(s) == LET Of(e) == e.stream_id = s IN SelectSeq(log, Of)
LastN(q, n) == SubSeq(q, Len(q) - n + 1, Len(q))
\* A step in which a replay_events_after call begins (and runs to its first await).
ReplayCalled == rp' # rp /\ rp.pc # "sending"
\* A step in which store_event returns an id.
Stored == Len(log') = Len(log) + 1

\* C1: when replay_events_after(e) returns with e in the index, the callback
\* has been invoked exactly once for every entry of e's stream that follows e,
\* in append order, never for e or an earlier entry, and the call returns
\* e's stream id (nothing is delivered when e is the newest entry).
C1_ReplayDeliversSuffix ==
    [][(rp' # rp /\ rp'.pc = "done" /\ rp'.last \in DOMAIN event_index')
        => LET e == event_index'[rp'.last]
               q == streams'[e.stream_id]
               i == PosOf(q, e.event_id)
           IN  /\ rp'.ret = e.stream_id
               /\ rp'.sent = [j \in 1..(Len(q) - i) |->
                                EventMessage(q[i + j].message, q[i + j].event_id)]
      ]_vars

\* A replay returned after delivering two entries that follow e, with an
\* older entry before e left undelivered.
C1_Witness ==
    /\ rp.pc = "done" /\ rp.ret # None /\ Len(rp.sent) = 2
    /\ rp.last \in DOMAIN event_index
    /\ PosOf(streams[rp.ret], rp.last) = 2
    /\ Len(streams[rp.ret]) = 4

\* C2: every event id store_event returns differs from every id an earlier
\* store_event call returned, on any stream, evicted or not.
C2_EventIdsDistinct ==
    \A i, j \in 1..Len(log) : i # j => log[i].event_id # log[j].event_id

\* Three ids were returned on two streams and one of them has been evicted.
C2_Witness ==
    /\ Len(log) >= 3
    /\ \E i, j \in 1..Len(log) : log[i].stream_id # log[j].stream_id
    /\ \E i \in 1..Len(log) : log[i].event_id \notin DOMAIN event_index

\* C3: a store_event on a full stream removes exactly the oldest entry of
\* that stream from the queue and from the index, keeps every other entry
\* and appends the new one at the tail; below capacity nothing is evicted.
C3_EvictsExactlyOldest ==
    [][Stored =>
        LET e == log'[Len(log')]
            q == GetStream(streams, e.stream_id)
            full == Len(q) = max_events_per_stream
            gone == IF full THEN {q[1].event_id} ELSE {}
        IN  /\ streams'[e.stream_id] = Append(IF full THEN Tail(q) ELSE q, e)
            /\ DOMAIN event_index' = (DOMAIN event_index \ gone) \cup {e.event_id}
            /\ \A id \in DOMAIN event_index \ gone : event_index'[id] = event_index[id]
            /\ event_index'[e.event_id] = e
            /\ \A s \in DOMAIN streams \ {e.stream_id} : streams'[s] = streams[s]
      ]_vars

\* The latest store_event evicted: its stream has taken more appends than
\* the capacity of two or more, and another stream holds entries too.
C3_Witness ==
    /\ store_ret.outcome = "ok"
    /\ max_events_per_stream >= 2
    /\ Len(Appended(store_ret.stream_id)) > max_events_per_stream
    /\ log[Len(log)].stream_id = store_ret.stream_id
    /\ \E s \in DOMAIN streams : s # store_ret.stream_id /\ Len(streams[s]) > 0

\* C4: an event id is a key of event_index exactly when its entry is held in
\* the queue of its stream, and the index maps it to that entry.
C4_IndexIffQueued ==
    /\ \A id \in DOMAIN event_index :
          /\ event_index[id].event_id = id
          /\ event_index[id].stream_id \in DOMAIN streams
          /\ event_index[id] \in Range(streams[event_index[id].stream_id])
    /\ \A s \in DOMAIN streams : \A i \in 1..Len(streams[s]) :
          /\ streams[s][i].event_id \in DOMAIN event_index
          /\ event_index[streams[s][i].event_id] = streams[s][i]

\* Entries have been evicted and others are still queued and indexed.
C4_Witness ==
    /\ Len(log) > Cardinality(DOMAIN event_index)
    /\ Cardinality(DOMAIN event_index) >= 2

\* C5: a stream's queue never holds more than max_events_per_stream entries,
\* and after k appends it holds the min(k, max_events_per_stream) most
\* recently appended entries of the stream, in insertion order.
C5_QueueHoldsMostRecent ==
    \A s \in DOMAIN streams :
        LET k == Len(Appended(s))
            n == IF k < max_events_per_stream THEN k ELSE max_events_per_stream
        IN  /\ Len(streams[s]) <= max_events_per_stream
            /\ streams[s] = LastN(Appended(s), n)

\* A stream has taken more appends than its capacity of two or more.
C5_Witness ==
    \E s \in DOMAIN streams :
        /\ max_events_per_stream >= 2
        /\ Len(Appended(s)) > max_events_per_stream
        /\ Len(streams[s]) = max_events_per_stream

\* C6: replay_events_after called with an id that is not in the index (never
\* issued, or evicted) returns None, invokes the callback zero times and
\* raises nothing.
C6_AbsentIdNotFound ==
    [][(ReplayCalled /\ rp'.last \notin DOMAIN event_index)
        => (rp'.pc = "done" /\ rp'.ret = None /\ rp'.sent = <<>>)]_vars

\* A replay of an id that had been issued and evicted returned None.
C6_Witness ==
    /\ rp.pc = "done" /\ rp.ret = None /\ rp.sent = <<>>
    /\ rp.last \in IdsOf(log)
    /\ rp.last \notin DOMAIN event_index

\* C7 as stated: a replay on behalf of stream S with an id that belongs to
\* another stream T returns not-found and delivers no event.
C7_OtherStreamNotFound ==
    (/\ rp.pc \in {"sending", "done"}
     /\ \E i \in 1..Len(log) :
            log[i].event_id = rp.last /\ log[i].stream_id # rp.assumed)
    => (rp.sent = <<>> /\ rp.ret = None)

\* C7 as amended: replay_events_after has no stream argument; for an id in
\* the index it replays the stream that owns the id, whatever stream the
\* caller serves: every entry delivered belongs to the owning stream and the
\* owning stream's id is returned.
C7_ReplaysOwningStream ==
    rp.stream # None =>
        /\ \E i \in 1..Len(log) :
              log[i].event_id = rp.last /\ log[i].stream_id = rp.stream
        /\ \A k \in 1..Len(rp.sent) : \E i \in 1..Len(log) :
              /\ log[i].event_id = rp.sent[k].event_id
              /\ log[i].stream_id = rp.stream
        /\ rp.pc = "done" => rp.ret = rp.stream

\* A caller serving one stream was delivered an entry of another stream.
C7_Witness ==
    /\ rp.pc = "done" /\ rp.ret # None /\ rp.ret # rp.assumed
    /\ Len(rp.sent) >= 1

\* C8: store_event never raises, whatever max_events_per_stream is.
C8_StoreNeverFails == store_ret.outcome # "IndexError"

\* C9: a replay of stream S awaiting send_callback sees no store_event take
\* effect on S, so it never fails on a concurrent append.
C9_ReplaySerialized ==
    /\ rp.pc # "RuntimeError"
    /\ rp.pc = "sending" => dstate[rp.stream] = rp.itstate

\* C10: the session-creation lock is released before the new session's first
\* request is handed to handle_request: no request is inside handle_request
\* while it owns the lock, so none waits for the lock behind one.
C10_LockReleasedBeforeHandling ==
    \A r \in Reqs : req[r].pc = "handle_new" => session_creation_lock.owner # r
\* A request that went through the creation block (line 277-283).
Created(r) == req[r].header = NoSession /\ req[r].sid # NoSession

\* C11: concurrent requests without a session header each create a session:
\* the session ids are pairwise distinct, each is registered with the
\* transport its own request built, none is lost and none overwritten.
C11_DistinctSessionsRegistered ==
    /\ \A r \in Reqs : Created(r) =>
          /\ req[r].sid \in DOMAIN server_instances
          /\ server_instances[req[r].sid] = r
    /\ \A r1, r2 \in Reqs :
          (Created(r1) /\ Created(r2) /\ r1 # r2) => req[r1].sid # req[r2].sid
    /\ Cardinality(DOMAIN server_instances) =
          Cardinality({r \in Reqs : Created(r)})

\* Header-less requests in flight together: two have created sessions whose
\* tasks were started, one of them still inside the block, while a third is
\* queued on the lock.
C11_Witness ==
    /\ Cardinality({r \in Reqs : Created(r) /\ req[r].sid \in DOMAIN tasks}) = 2
    /\ \E r \in Reqs : req[r].pc = "handle_new"
    /\ \E r \in Reqs : req[r].pc = "waiting"

\* A step of request r's handler.
Moves(r) == req'[r] # req[r]
\* Request r is read and routed (line 263-272) in this step.
Routed(r) == req[r].pc = "new" /\ req'[r].pc # "new"

\* C12: a request whose header names a registered session is forwarded to
\* that session's transport; no step of its handler acquires the creation
\* lock, creates a session or starts a task, whoever holds the lock.
C12_ExistingSessionBypassesLock ==
    [][\A r \in Reqs :
        /\ (Routed(r) /\ req'[r].header \in DOMAIN server_instances)
              => (req'[r].pc = "handle_existing" /\ req'[r].sid = req'[r].header)
        /\ (Moves(r) /\ req'[r].header \in DOMAIN server_instances)
              => /\ req'[r].pc \in {"handle_existing", "done"}
                 /\ UNCHANGED <<session_creation_lock, server_instances, tasks>>
      ]_vars

\* A request is being handled by an existing session's transport while
\* another request holds the creation lock and a third waits for it.
C12_Witness ==
    \E r, c, w \in Reqs :
        /\ req[r].pc = "handle_existing"
        /\ req[r].sid \in DOMAIN server_instances
        /\ session_creation_lock.owner = c /\ req[c].pc = "starting"
        /\ req[w].pc = "waiting"

\* C13: a request whose header is present but not registered is answered
\* with 400 Bad Request in one step that creates no session and touches
\* neither the registry, the creation lock nor the task group.
C13_UnknownSessionRejected ==
    [][\A r \in Reqs :
        (/\ Routed(r)
         /\ req'[r].header # NoSession
         /\ req'[r].header \notin DOMAIN server_instances)
        => /\ req'[r].pc = "done" /\ req'[r].outcome = "400"
           /\ req'[r].sid = NoSession
           /\ UNCHANGED <<server_instances, session_creation_lock, tasks,
                          task_group>>
      ]_vars

\* A request naming an unregistered session was answered 400 while another
\* session is registered and running.
C13_Witness ==
    \E r \in Reqs :
        /\ req[r].outcome = "400"
        /\ req[r].header \notin DOMAIN server_instances
        /\ \E s \in DOMAIN server_instances : s \in DOMAIN tasks /\ tasks[s] = "running"

Ended(sid) == sid \in DOMAIN tasks /\ tasks[sid] \in {"finished", "cancelled"}
Outstanding(sid) == sid \in DOMAIN tasks /\ tasks[sid] \in {"starting", "running"}

\* C14: once a session's run_server task has ended (engine finished,
\* protocol close or cancellation) the session is no longer registered in
\* server_instances.
C14_EndedSessionUnregistered ==
    \A sid \in SessionIds : Ended(sid) => sid \notin DOMAIN server_instances

\* C15: after the lifespan's shutdown the task group's scope has been
\* cancelled: no session task is outstanding, however many were live, and
\* the global task_group is None again.
C15_ShutdownCancelsAll ==
    lifespan_pc = "stopped" =>
        /\ task_group = None
        /\ \A sid \in SessionIds : ~Outstanding(sid)

\* Shutdown found two sessions live and cancelled both tasks, while a
\* request was still being handled.
C15_Witness ==
    /\ lifespan_pc = "stopped"
    /\ Cardinality({sid \in DOMAIN tasks : tasks[sid] = "cancelled"}) >= 2
    /\ \E r \in Reqs : req[r].pc = "handle_new"

\* C16: after the scope has been cancelled, a request carrying the id of a
\* session that was live at shutdown is not handed to that session's
\* transport.
C16_NoHandOffAfterShutdown ==
    [][\A r \in Reqs :
        (/\ Routed(r)
         /\ lifespan_pc = "stopped"
         /\ req'[r].header \in DOMAIN tasks
         /\ tasks[req'[r].header] = "cancelled")
        => req'[r].pc # "handle_existing"
      ]_vars

\* C17: a header-less request that reaches the task-group check while
\* task_group is None ends there with RuntimeError: no task is started, the
\* request is never handed to a transport and the handler does nothing more.
C17_NoTaskGroupRaises ==
    [][\A r \in Reqs :
        /\ (req[r].pc = "locked" /\ Moves(r) /\ task_group = None)
              => /\ req'[r].pc = "done" /\ req'[r].outcome = "RuntimeError"
                 /\ tasks' = tasks
        /\ req[r].outcome = "RuntimeError" => ~Moves(r)
      ]_vars

\* Both cases happened: one request failed before startup, another after
\* shutdown, and neither session has a task.
C17_Witness ==
    \E r1, r2 \in Reqs :
        /\ r1 # r2
        /\ req[r1].outcome = "RuntimeError" /\ req[r2].outcome = "RuntimeError"
        /\ req[r1].sid \notin DOMAIN tasks /\ req[r2].sid \notin DOMAIN tasks
        /\ lifespan_pc = "stopped"
        /\ \E s \in DOMAIN tasks : tasks[s] = "cancelled"

\* C18: the transport is registered only after the supervisor has started
\* the session's task: while a request is still in task_group.start, its
\* session id does not resolve in server_instances.
C18_RegisteredAfterTaskStart ==
    \A r \in Reqs : req[r].pc = "starting" => req[r].sid \notin DOMAIN server_instances

\* Request r's handler ends in this step because its client went away.
Disconnected(r) == Moves(r) /\ req'[r].outcome = "disconnect"

\* C19: a client disconnect ends only that request's handler: the step
\* leaves the registry, the session tasks and the event store as they were,
\* and a later request carrying the id of the session is still routed to
\* the same transport.
C19_DisconnectKeepsSession ==
    [][\A r \in Reqs :
        /\ Disconnected(r) =>
              UNCHANGED <<server_instances, tasks, streams, event_index, log>>
        /\ (/\ Routed(r)
            /\ \E d \in Reqs : /\ req[d].outcome = "disconnect"
                               /\ req[d].sid = req'[r].header)
              => /\ req'[r].pc = "handle_existing"
                 /\ req'[r].sid = req'[r].header
                 /\ server_instances'[req'[r].sid] = server_instances[req'[r].sid]
      ]_vars

\* The client of a session's first request went away after an event had
\* been stored; the event is still indexed, the session's task still runs
\* and a later request with the session's id is with the same transport.
C19_Witness ==
    \E d, r \in Reqs :
        /\ req[d].outcome = "disconnect" /\ Created(d)
        /\ req[r].pc = "handle_existing" /\ req[r].sid = req[d].sid
        /\ server_instances[req[d].sid] = d
        /\ tasks[req[d].sid] = "running"
        /\ Len(log) >= 1 /\ DOMAIN event_index # {}

\* The call that has returned repeats the previous call, and nothing was
\* appended since that one began to what the two read.
Repeated == rp.pc = "done" /\ rp.prev.set /\ NothingAppendedSince(rp)

\* C20: replay_events_after only reads: each of its steps, found or not
\* found, leaves streams and event_index as they were, and a call repeated
\* with no append in between delivers the same sequence and returns the same.
C20_ReplayReadOnly ==
    [][/\ rp' # rp => UNCHANGED <<streams, event_index>>
       /\ Repeated' => (rp'.sent = rp'.prev.sent /\ rp'.ret = rp'.prev.ret)
      ]_vars

\* A replay that delivered two entries was repeated and delivered them again.
C20_Witness ==
    /\ Repeated /\ rp.ret # None
    /\ Len(rp.sent) = 2 /\ rp.prev.sent = rp.sent

\* C21: a session creation that fails because the task group is unavailable
\* leaves the registry as it was: every id registered in server_instances
\* has had a background task started for it.
C21_FailedCreateUnregistered ==
    \A sid \in DOMAIN server_instances : sid \in DOMAIN tasks

\* The latest store_event call was made on this stream (it may have raised).
StoreCalled == Len(uuids') = Len(uuids) + 1
\* The entries held anywhere in the store: queued or indexed.
Held(strs, index) ==
    UNION {Range(strs[s]) : s \in DOMAIN strs} \cup {index[id] : id \in DOMAIN index}

\* C22: store_event on stream S leaves the queue of every other stream and
\* the index entries of their events as they were, creates no other stream,
\* and no step changes the event_id, stream_id or message of an entry that
\* stays stored: what is held afterwards was held before or is the one new
\* entry of S.
C22_StoreTouchesOnlyItsStream ==
    [][/\ StoreCalled =>
            LET S == store_ret'.stream_id
            IN  /\ DOMAIN streams' = DOMAIN streams \cup {S}
                /\ \A s \in DOMAIN streams \ {S} : streams'[s] = streams[s]
                /\ \A id \in DOMAIN event_index :
                      event_index[id].stream_id # S
                         => /\ id \in DOMAIN event_index'
                            /\ event_index'[id] = event_index[id]
                /\ \A e \in Held(streams', event_index') \ Held(streams, event_index) :
                      e.stream_id = S /\ e = log'[Len(log')]
       /\ \A id \in DOMAIN event_index \cap DOMAIN event_index' :
              event_index'[id] = event_index[id]
       /\ ~StoreCalled => Held(streams', event_index') = Held(streams, event_index)
      ]_vars

\* Both streams have evicted; the latest store_event evicted from its stream
\* while the other stream still holds, queued and indexed, the entry it held.
C22_Witness ==
    /\ store_ret.outcome = "ok"
    /\ \A s \in StreamIds : s \in DOMAIN streams /\ Len(Appended(s)) >= 2
    /\ max_events_per_stream = 1
    /\ \E s \in StreamIds :
          /\ s # store_ret.stream_id
          /\ streams[s] = LastN(Appended(s), 1)
          /\ event_index[streams[s][1].event_id] = streams[s][1]
          /\ streams[s][1].event_id < store_ret.event_id

InBlock == {"locked", "starting", "handle_new"}

\* C23: whenever a request leaves the creation block, with a response or
\* with the 'Task group is not initialized' error, a failed task start or a
\* failed handle_request, the lock is released: the request no longer owns
\* it, the first waiter (if any) owns it and enters the block, and otherwise
\* it is free; the lock is only ever owned by a request inside the block.
C23_LockReleasedOnExit ==
    [][/\ \A r \in Reqs :
            (req[r].pc \in InBlock /\ req'[r].pc = "done")
               => /\ session_creation_lock'.owner # r
                  /\ IF session_creation_lock.waiters = <<>>
                     THEN session_creation_lock'.owner = NoOwner
                     ELSE LET w == Head(session_creation_lock.waiters)
                          IN  /\ session_creation_lock'.owner = w
                              /\ req'[w].pc = "locked"
       /\ session_creation_lock'.owner # NoOwner
             => req'[session_creation_lock'.owner].pc \in InBlock
      ]_vars

\* One creation failed on the missing task group, one on its task start,
\* and a later header-less request has acquired the lock.
C23_Witness ==
    \E r1, r2, r3 \in Reqs :
        /\ req[r1].outcome = "RuntimeError"
        /\ req[r2].outcome = "StartError"
        /\ req[r3].pc = "locked" /\ session_creation_lock.owner = r3

HasArn(ev) == Truthy(ev.methodArn) \/ Truthy(ev.routeArn)
\* The value is: whitespace, 'bearer' in some case, whitespace, one more
\* run of non-whitespace, whitespace.
BearerShaped(o) ==
    /\ o # Absent
    /\ LET s == o[1]
       IN  \E i, j, k \in 1..Len(s) :
              /\ i < j /\ j <= k
              /\ s[i] \in {"Bearer", "bearer"}
              /\ \A n \in 1..Len(s) : (s[n] # " ") <=> (n = i \/ (j <= n /\ n <= k))
              /\ i + 1 < j

\* C24: lambda_handler returns a dict with isAuthorized, and isAuthorized is
\* True exactly when the event has a methodArn or routeArn and the selected
\* authorization value splits on whitespace into exactly two parts of which
\* the first is 'bearer' in any case.
C24_AuthorizedIffBearer ==
    auth_ret # Absent =>
        /\ auth_ret[1] \in [isAuthorized : BOOLEAN]
        /\ auth_ret[1].isAuthorized <=> (HasArn(event) /\ BearerShaped(raw_auth_header))

\* An event with a routeArn only and 'Bearer tok' in its Authorization
\* header, found behind another header, was authorized.
C24_Witness ==
    /\ auth_ret = Some([isAuthorized |-> TRUE])
    /\ event.methodArn = Absent
    /\ event.identitySource = Absent
    /\ raw_auth_header = Some(<<"Bearer", " ", "tok">>)
    /\ Len(event.headers[1]) = 2

\* A value that is no credential (missing or empty) counts as none.
Norm(o) == IF Truthy(o) THEN o ELSE Absent
\* The credential of the first source that supplies one, in the order
\* identitySource[0], Authorization header, authorizationToken.
FirstSupplied(ev) ==
    LET id == IF ev.identitySource # Absent /\ Len(ev.identitySource[1]) > 0
              THEN Norm(Some(ev.identitySource[1][1])) ELSE Absent
        h == IF ev.headers = Absent THEN <<>> ELSE ev.headers[1]
        supplying == {i \in 1..Len(h) : /\ h[i].name \in {"Authorization", "authorization",
                                                          "AUTHORIZATION"}
                                        /\ h[i].value # <<>>}
        hd == IF supplying = {} THEN Absent ELSE Some(h[Min(supplying)].value)
    IN  IF id # Absent THEN id
        ELSE IF hd # Absent THEN hd
        ELSE Norm(ev.authorizationToken)

\* C25: the credential lambda_handler works with is that of the first
\* source that supplies one, in the order identitySource[0], Authorization
\* header, authorizationToken: authorizationToken is used whenever the two
\* others yield nothing.
C25_FirstSupplyingSource ==
    (auth_ret # Absent /\ HasArn(event))
        => Norm(raw_auth_header) = FirstSupplied(event)

\* C26: wait_for_function_update_completion polls at most 30 times and only
\* until it returns: a poll with LastUpdateStatus missing or 'Successful'
\* makes it return True, one with 'Failed' or a function not found makes it
\* return False, any other poll is followed by another one, and the 30th
\* such poll by False.
C26_WaitTerminates ==
    [][wait_attempts' # wait_attempts =>
          /\ wait_ret = "None"
          /\ wait_attempts' = wait_attempts + 1
          /\ wait_attempts' <= 30
          /\ wait_ret' =
                IF last_update_status' \in {"None", "Successful"} THEN "True"
                ELSE IF last_update_status' \in {"Failed", "ResourceNotFoundException"}
                THEN "False"
                ELSE IF wait_attempts' = 30 THEN "False"
                ELSE "None"
          /\ wait_ret' = "None" <=> deploy_pc' = "wait"
      ]_vars

\* Thirty polls, the last one throttled, and the function returned False.
C26_Witness ==
    /\ wait_attempts = 30
    /\ last_update_status = "ThrottlingException"
    /\ wait_ret = "False"

\* The code update has failed for good.
CodeFailed ==
    \/ code_result = "Error"
    \/ code_result = "ResourceConflictException" /\ code_attempts = 5

\* C27: update_function_code is called at most 5 times, again only after a
\* ResourceConflictException and never after a success; when the 5th call
\* conflicts too, or a call fails otherwise, deploy_lambda_container returns
\* False and has made no poll, no configuration update and no poll of the
\* state (which precedes the API gateway deployment).
C27_CodeUpdateRetries ==
    [][/\ code_attempts' <= 5
       /\ code_attempts' # code_attempts =>
             /\ code_result \in {"None", "ResourceConflictException"}
             /\ code_attempts' = code_attempts + 1
       /\ (code_result' = "ResourceConflictException" /\ code_attempts' < 5)
             => deploy_pc' = "update_code"
       /\ code_result' = "ok" => deploy_pc' # "update_code"
       /\ CodeFailed' =>
             /\ deploy_pc' = "done" /\ deploy_ret' = "False"
             /\ wait_attempts' = 0 /\ config_attempts' = 0 /\ attempts' = 0
      ]_vars

\* Five calls conflicted and the deployment returned False.
C27_Witness ==
    /\ code_attempts = 5
    /\ code_result = "ResourceConflictException"
    /\ deploy_pc = "done" /\ deploy_ret = "False"
    /\ function_exists = "True"

\* C28: update_function_configuration is called only after
\* wait_for_function_update_completion has seen the code update complete
\* successfully.
C28_ConfigAfterCodeComplete ==
    config_attempts > 0 => wait_ret = "True"

\* The key's last two pieces are a /.well-known discovery path.
IsPublic(k) ==
    /\ Len(k) >= 2
    /\ k[Len(k) - 1] = "/.well-known"
    /\ k[Len(k)] \in {"/oauth-protected-resource", "/oauth-authorization-server",
                       "/openid-configuration"}
Attempted == {updates[n].route : n \in 1..Len(updates)}

\* C29: update_route is never called for a public route and is called, once
\* and in order, for every other route the loop has passed, whether earlier
\* calls failed or not; when the function returns the authorizer id the
\* loop has passed every route.
C29_AuthorizerOnNonPublicRoutes ==
    /\ \A i \in Attempted : ~IsPublic(routes[i])
    /\ Attempted = {i \in 1..route_i : ~IsPublic(routes[i])}
    /\ \A m, n \in 1..Len(updates) : m < n => updates[m].route < updates[n].route
    /\ attach_ret = "authorizer_id" => route_i = Len(routes)

\* Of three routes the public one was skipped, the first update failed and
\* the last route was still updated.
C29_Witness ==
    /\ attach_ret = "authorizer_id"
    /\ Len(routes) = 3 /\ \E i \in 1..3 : IsPublic(routes[i])
    /\ Len(updates) = 2
    /\ updates[1].outcome = "Error" /\ updates[2].outcome = "ok"
    /\ updates[2].route = 3
====
